---------------------------- MODULE Spec2Model ----------------------------
(***************************************************************************)
(* A model of the HTTP layer of api.py: the middleware registration, the   *)
(* result post-processor and the handlers of /search, /libs_manifest,      *)
(* /generate-cache, /config and /api-config.                               *)
(*                                                                         *)
(* Python strings that the code takes apart (paths, identifiers, the       *)
(* strip pattern, prefix and postfix) are sequences of one-character       *)
(* strings.  An Optional[str] is a record [some, val]; None is             *)
(* [some |-> FALSE].                                                       *)
(***************************************************************************)
EXTENDS Integers, Sequences, FiniteSets, TLC

VARIABLES
    api_config,         \* api_config = load_config(), read-only after startup
    engine_calls,       \* calls of search_engine.search made by the last /search
    search_raw,         \* what the engine returned to the last /search
    search_response,    \* response of the last /search
    has_cache,          \* search_engine.has_cache()
    pending,            \* background tasks scheduled and not yet started
    running,            \* background cache builds that are running
    tasks_added,        \* tasks the last /generate-cache put in its BackgroundTasks
    cache_response,     \* response of the last /generate-cache
    manifest_file,      \* temp_dir/all_manifest.json
    rebuild_calls,      \* reload_community_info() calls of the last /libs_manifest
    manifest_reads,     \* open()s of the manifest by the last /libs_manifest
    manifest_response,  \* response of the last /libs_manifest
    api_key,            \* search_engine.embedding_service.api_key
    base_url,           \* search_engine.embedding_service.base_url
    store,              \* what the Config Store last persisted
    inflight,           \* PUT /api-config requests accepted, handler not yet run
    handled,            \* the body of the last PUT /api-config handled, if any
    config_response,    \* response of the last /config or /api-config
    user_middleware,    \* app.user_middleware, outermost first
    requests,           \* requests travelling through the middleware stack
    rl_count            \* requests the rate limiter has counted in this window

vars == <<api_config, engine_calls, search_raw, search_response, has_cache,
          pending, running, tasks_added, cache_response, manifest_file,
          rebuild_calls, manifest_reads, manifest_response, api_key, base_url,
          store, inflight, handled, config_response, user_middleware, requests,
          rl_count>>

search_vars == <<engine_calls, search_raw, search_response>>
cache_vars == <<has_cache, pending, running, tasks_added, cache_response>>
manifest_vars == <<manifest_file, rebuild_calls, manifest_reads,
                   manifest_response>>
config_vars == <<api_key, base_url, store, inflight, handled, config_response>>
gate_vars == <<user_middleware, requests, rl_count>>

---------------------------------------------------------------------------
(* Bounds.                                                                 *)

MaxResults == 2      \* longest raw result list the engine returns
MaxTasks == 3        \* background tasks pending or running at once
MaxInflight == 2     \* PUT /api-config requests waiting for the event loop
MaxRequests == 2     \* requests inside the middleware stack at once
RateQuota == 2       \* requests the rate limiter lets through per window

---------------------------------------------------------------------------
(* Optional[str] and Python string helpers.                                *)

None == [some |-> FALSE, val |-> <<>>]
Some(s) == [some |-> TRUE, val |-> s]

\* Python truthiness of an Optional[str]: None and "" are falsy.
Truthy(o) == o.some /\ o.val # <<>>

\* What an f-string makes of an Optional[str]: str(None) is "None".
Format(o) == IF o.some THEN o.val ELSE <<"N", "o", "n", "e">>

\* str.endswith
endswith(v, suffix) ==
    /\ Len(suffix) <= Len(v)
    /\ SubSeq(v, Len(v) - Len(suffix) + 1, Len(v)) = suffix

\* Largest index of character c in s, 0 when absent (str.rfind, 1-based).
rfind(s, c) ==
    LET hits == {i \in 1..Len(s) : s[i] = c}
    IN  IF hits = {} THEN 0 ELSE CHOOSE i \in hits : \A j \in hits : j <= i

\* os.path.basename: what follows the last "/".
basename(p) == SubSeq(p, rfind(p, "/") + 1, Len(p))

\* os.path.splitext(p)[1]: from the last dot of the last component, unless
\* only dots precede it in that component.
splitext_ext(p) ==
    LET sepIndex == rfind(p, "/")
        dotIndex == rfind(p, ".")
    IN  IF /\ dotIndex > sepIndex
           /\ \E k \in (sepIndex + 1)..(dotIndex - 1) : p[k] # "."
        THEN SubSeq(p, dotIndex, Len(p))
        ELSE <<>>

\* p.split("/") without the empty components (paths here are absolute and
\* normalised, as os.path.abspath leaves them).
RECURSIVE split_from(_, _, _)
split_from(p, i, cur) ==
    IF i > Len(p)
    THEN IF cur = <<>> THEN <<>> ELSE <<cur>>
    ELSE IF p[i] = "/"
         THEN (IF cur = <<>> THEN <<>> ELSE <<cur>>) \o split_from(p, i + 1, <<>>)
         ELSE split_from(p, i + 1, Append(cur, p[i]))

split(p) == split_from(p, 1, <<>>)

\* "/".join(parts)
RECURSIVE join(_)
join(parts) ==
    IF parts = <<>> THEN <<>>
    ELSE IF Len(parts) = 1 THEN parts[1]
    ELSE parts[1] \o <<"/">> \o join(Tail(parts))

\* Number of leading components two component lists share.
commonprefix_len(a, b) ==
    LET n == IF Len(a) < Len(b) THEN Len(a) ELSE Len(b)
        agree == {k \in 0..n : \A j \in 1..k : a[j] = b[j]}
    IN  CHOOSE k \in agree : \A j \in agree : j <= k

\* os.path.relpath(path, start) for absolute normalised arguments.
relpath(path, start) ==
    LET start_list == split(start)
        path_list == split(path)
        i == commonprefix_len(start_list, path_list)
        ups == [k \in 1..(Len(start_list) - i) |-> <<".", ".">>]
        rel_list == ups \o SubSeq(path_list, i + 1, Len(path_list))
    IN  IF rel_list = <<>> THEN <<".">> ELSE join(rel_list)

\* The pattern matches v at index i.  A pattern is a sequence of literal
\* characters and "." wildcards, so every match has the pattern's length.
MatchAt(p, v, i) ==
    /\ i + Len(p) - 1 <= Len(v)
    /\ \A j \in 1..Len(p) : p[j] = "." \/ p[j] = v[i + j - 1]

\* re.sub(p, "", v): one left-to-right scan that drops each match it meets
\* and resumes right after it.
RECURSIVE re_sub_from(_, _, _)
re_sub_from(p, v, i) ==
    IF i > Len(v) THEN <<>>
    ELSE IF MatchAt(p, v, i) THEN re_sub_from(p, v, i + Len(p))
    ELSE <<v[i]>> \o re_sub_from(p, v, i + 1)

\* Mutant: re.sub(p, "", v, count=1), only the first match is removed.
re_sub_first(p, v) ==
    LET hits == {i \in 1..Len(v) : MatchAt(p, v, i)}
        first == CHOOSE i \in hits : \A j \in hits : i <= j
    IN  IF hits = {} THEN v
        ELSE SubSeq(v, 1, first - 1) \o SubSeq(v, first + Len(p), Len(v))

re_sub(p, v) == re_sub_from(p, v, 1)


---------------------------------------------------------------------------
(* Result post-processor.                                                  *)

\* Config().base_dir
base_dir == <<"/", "d">>

\* Lines 51-56: the identifier by return type.  In "sha256" mode a raw
\* result is the tuple (path, hash): v[0] is TLA+ v[1], v[1] is TLA+ v[2].
\* Any other return type leaves the raw result as it is.
select_identifier(v, urls) ==
    IF urls.return_type = "abs_path" THEN v
    ELSE IF urls.return_type = "rel_path" THEN relpath(v, base_dir)
    ELSE IF urls.return_type = "sha256" THEN v[2] \o splitext_ext(basename(v[1]))
    ELSE v

\* Lines 57-59: one re.sub pass when a pattern is configured.
strip_regex(v, urls) ==
    IF Truthy(urls.path_replace_regex)
    THEN re_sub(urls.path_replace_regex.val, v)
    ELSE v

\* Lines 61-62.
add_prefix(v, urls) ==
    IF Truthy(urls.url_prefix)
    THEN Format(urls.url_prefix) \o <<"/">> \o v
    ELSE v

\* Lines 63-65: the branch appends "/" and url_prefix.
add_postfix(v, urls) ==
    IF Truthy(urls.url_postfix) /\ ~endswith(v, urls.url_postfix.val)
    THEN v \o <<"/">> \o Format(urls.url_prefix)
    ELSE v

\* The body of the loop, lines 51-67.
postprocess_one(v, urls) ==
    add_postfix(add_prefix(strip_regex(select_identifier(v, urls), urls), urls), urls)

\* Lines 48-68.
RECURSIVE search_result_postprocess(_, _)
search_result_postprocess(results, urls) ==
    IF results = <<>> THEN <<>>
    ELSE <<postprocess_one(Head(results), urls)>>
         \o search_result_postprocess(Tail(results), urls)

---------------------------------------------------------------------------
(* POST /search.                                                           *)

ReturnTypes == {"abs_path", "rel_path", "sha256", "other"}

Patterns == {None, Some(<<>>), Some(<<"a", "b">>), Some(<<".", "b">>),
             Some(<<"/">>)}

Prefixes == {None, Some(<<>>), Some(<<"p">>)}

Postfixes == {None, Some(<<>>), Some(<<"x">>), Some(<<"p">>)}

UrlConfigs == [return_type : ReturnTypes, path_replace_regex : Patterns,
               url_prefix : Prefixes, url_postfix : Postfixes]

DefaultUrls == [return_type |-> "abs_path", path_replace_regex |-> None,
                url_prefix |-> None, url_postfix |-> None]

\* Absolute paths the engine knows: under base_dir with an extension, with a
\* name where removing "ab" joins a new "ab", and outside base_dir.
RawPaths == {<<"/", "d", "/", "a", "a", "b", "b", ".", "x">>,
             <<"/", "d", "/", "a", ".", "x">>,
             <<"/", "d", "/", "c">>,
             <<"/", "e", "/", "a", "b">>}

Hashes == {<<"a", "a", "b", "b">>, <<"c", "0">>}

\* The return-type hint handed to the engine, line 94.
return_type_hint(urls) ==
    IF urls.return_type = "sha256" THEN "hash" ELSE "default"

\* The engine's contract: (path, hash) pairs under the "hash" hint, plain
\* paths otherwise.
RawResults(hint) ==
    IF hint = "hash" THEN {<<p, h>> : p \in RawPaths, h \in Hashes}
    ELSE RawPaths

RawLists(hint, n) == UNION {[1..k -> RawResults(hint)] : k \in 0..n}

EngineErrors == {"index not loaded", "embedding request failed"}

SearchRequests == [n_results : 1..MaxResults, ai_search : BOOLEAN]

\* What search_engine.search does with one call: a list of at most
\* n_results raw results, or an exception.
EngineOutcomes(hint, n) ==
    [ok : {TRUE}, results : RawLists(hint, n), error : {""}]
        \cup [ok : {FALSE}, results : {<<>>}, error : EngineErrors]

NoResponse == [status |-> 0, body |-> [none |-> TRUE]]

\* HTTPException(status_code=500, detail=str(e))
HTTPException(code, detail) == [status |-> code, body |-> [detail |-> detail]]

\* Mutant: a failed engine call is tried a second time before the 500.
search_images_retry(request, outcome) ==
    LET call == [n_results |-> request.n_results,
                 use_llm |-> request.ai_search,
                 return_type |-> return_type_hint(api_config.urls)]
    IN  /\ engine_calls' = IF outcome.ok THEN <<call>> ELSE <<call, call>>
        /\ search_raw' = outcome
        /\ search_response' =
             IF outcome.ok
             THEN [status |-> 200,
                   body |-> [results |->
                       search_result_postprocess(outcome.results, api_config.urls)]]
             ELSE HTTPException(500, outcome.error)

\* Lines 84-99.  The engine is called once; its list goes through the
\* post-processor, its exception becomes a 500.
search_images(request, outcome) ==
    /\ engine_calls' = <<[n_results |-> request.n_results,
                          use_llm |-> request.ai_search,
                          return_type |-> return_type_hint(api_config.urls)]>>
    /\ search_raw' = outcome
    /\ search_response' =
         IF outcome.ok
         THEN [status |-> 200,
               body |-> [results |->
                   search_result_postprocess(outcome.results, api_config.urls)]]
         ELSE HTTPException(500, outcome.error)

\* One /search request is served at a time: the search variables describe
\* the request being served.
SearchImages ==
    /\ search_response = NoResponse
    /\ \E request \in SearchRequests :
         \E outcome \in EngineOutcomes(return_type_hint(api_config.urls),
                                       request.n_results) :
            search_images(request, outcome)
    /\ UNCHANGED <<api_config, cache_vars, manifest_vars, config_vars, gate_vars>>

\* The response has been sent and the request's locals are gone.
SearchDone ==
    /\ search_response # NoResponse
    /\ engine_calls' = <<>>
    /\ search_raw' = [ok |-> TRUE, results |-> <<>>, error |-> ""]
    /\ search_response' = NoResponse
    /\ UNCHANGED <<api_config, cache_vars, manifest_vars, config_vars, gate_vars>>

---------------------------------------------------------------------------
(* POST /generate-cache and the background cache builds.                   *)

Message(text) == [status |-> 200, body |-> [message |-> text]]

\* Mutant: the has_cache() check is missing, every call schedules a build.
generate_cache_unguarded ==
    /\ tasks_added' = 1
    /\ pending' = pending + 1
    /\ cache_response' = Message("Cache generation started")
    /\ UNCHANGED <<has_cache, running>>

\* Mutant: an in-flight flag, a call schedules nothing while a build is
\* pending or running.
generate_cache_inflight ==
    /\ IF ~has_cache /\ pending + running = 0
       THEN /\ tasks_added' = 1
            /\ pending' = pending + 1
            /\ cache_response' = Message("Cache generation started")
       ELSE /\ tasks_added' = 0
            /\ pending' = pending
            /\ cache_response' = Message("Cache already exists")
    /\ UNCHANGED <<has_cache, running>>

\* Lines 124-130.  The only guard is has_cache(); a task is added to the
\* request's BackgroundTasks and joins the tasks waiting to run.
generate_cache ==
    /\ IF ~has_cache
       THEN /\ tasks_added' = 1
            /\ pending' = pending + 1
            /\ cache_response' = Message("Cache generation started")
       ELSE /\ tasks_added' = 0
            /\ pending' = pending
            /\ cache_response' = Message("Cache already exists")
    /\ UNCHANGED <<has_cache, running>>

GenerateCache ==
    /\ has_cache \/ pending + running < MaxTasks
    /\ generate_cache
    /\ UNCHANGED <<api_config, search_vars, manifest_vars, config_vars, gate_vars>>

\* A scheduled task starts once its response has been sent.
TaskStart ==
    /\ pending > 0
    /\ pending' = pending - 1
    /\ running' = running + 1
    /\ UNCHANGED <<has_cache, tasks_added, cache_response>>
    /\ UNCHANGED <<api_config, search_vars, manifest_vars, config_vars, gate_vars>>

\* search_engine.generate_cache() returns: the cache exists when it
\* succeeded; its result or error reaches no caller.
TaskFinish ==
    /\ running > 0
    /\ running' = running - 1
    /\ \E built \in BOOLEAN : has_cache' = (has_cache \/ built)
    /\ UNCHANGED <<pending, tasks_added, cache_response>>
    /\ UNCHANGED <<api_config, search_vars, manifest_vars, config_vars, gate_vars>>

---------------------------------------------------------------------------
(* GET /libs_manifest.                                                     *)

Absent == [exists |-> FALSE, json_ok |-> FALSE, data |-> ""]
ValidManifest(d) == [exists |-> TRUE, json_ok |-> TRUE, data |-> d]
InvalidManifest == [exists |-> TRUE, json_ok |-> FALSE, data |-> ""]

ManifestData == {"m1", "m2"}

ManifestFiles ==
    {Absent, InvalidManifest} \cup {ValidManifest(d) : d \in ManifestData}

CommunityErrors == {"community fetch failed"}

\* What CommunityService().reload_community_info() does: it leaves some
\* manifest file (or none) and returns, or it raises.
RebuildOutcomes ==
    [raised : {FALSE}, file : ManifestFiles, error : {""}]
        \cup [raised : {TRUE}, file : {Absent}, error : CommunityErrors]

\* An exception no handler catches: the framework answers 500.
Unhandled == [status |-> 500, body |-> [text |-> "Internal Server Error"]]

\* Lines 113-122: open and json.load.  A manifest that exists is readable
\* text here, so the last except clause is not reached.
read_manifest(file) ==
    IF ~file.exists THEN HTTPException(404, "Manifest file not found")
    ELSE IF ~file.json_ok
         THEN HTTPException(500, "Invalid JSON format in manifest file")
    ELSE [status |-> 200, body |-> [manifest |-> file.data]]

\* Lines 106-122.  The rebuild runs outside the try block: when it raises,
\* the exception leaves the handler before the file is opened.
get_libs_manifest(rebuild) ==
    LET absent == ~manifest_file.exists
    IN  /\ rebuild_calls' = IF absent THEN 1 ELSE 0
        /\ IF absent /\ rebuild.raised
           THEN /\ manifest_file' = manifest_file
                /\ manifest_reads' = 0
                /\ manifest_response' = Unhandled
           ELSE /\ manifest_file' = IF absent THEN rebuild.file ELSE manifest_file
                /\ manifest_reads' = 1
                /\ manifest_response' = read_manifest(manifest_file')

GetLibsManifest ==
    /\ \E rebuild \in RebuildOutcomes : get_libs_manifest(rebuild)
    /\ UNCHANGED <<api_config, search_vars, cache_vars, config_vars, gate_vars>>

\* The manifest is written or removed outside the handler.
ManifestChange ==
    /\ \E f \in ManifestFiles : f # manifest_file /\ manifest_file' = f
    /\ UNCHANGED <<rebuild_calls, manifest_reads, manifest_response>>
    /\ UNCHANGED <<api_config, search_vars, cache_vars, config_vars, gate_vars>>

---------------------------------------------------------------------------
(* GET /config and PUT /api-config.                                        *)

K0 == <<"k", "0">>
K1 == <<"k", "1">>
K2 == <<"k", "2">>
U0 == <<"u", "0">>
U1 == <<"u", "1">>
U2 == <<"u", "2">>

\* ConfigUpdate bodies: each field absent, empty or one of two values.
ConfigUpdates == [api_key : {None, Some(<<>>), Some(K1), Some(K2)},
                  base_url : {None, Some(<<>>), Some(U1), Some(U2)}]

SaveErrors == {"disk full"}

\* config.save() returns or raises.
SaveOutcomes == [ok : {TRUE}, error : {""}] \cup [ok : {FALSE}, error : SaveErrors]

\* search_engine.get_model_name()
model_name == "bge-m3"

\* Lines 146-147.
set_api_key(update, current) ==
    IF Truthy(update.api_key) THEN update.api_key.val ELSE current

\* Mutant: base_url is assigned whether or not the update carries it.
set_base_url_always(update, current) == update.base_url.val

\* Lines 148-149.
set_base_url(update, current) ==
    IF Truthy(update.base_url) THEN update.base_url.val ELSE current

\* Mutant: a failed save puts the old values back.
update_config_rollback(update, save) ==
    /\ api_key' = IF save.ok THEN set_api_key(update, api_key) ELSE api_key
    /\ base_url' = IF save.ok THEN set_base_url(update, base_url) ELSE base_url
    /\ IF save.ok
       THEN /\ store' = [api_key |-> api_key', base_url |-> base_url']
            /\ config_response' = Message("Config updated successfully")
       ELSE /\ store' = store
            /\ config_response' = HTTPException(500, save.error)

\* Lines 142-153.  Both assignments happen before config.save(); a save
\* that raises turns into a 500 and undoes nothing.
update_config(update, save) ==
    /\ api_key' = set_api_key(update, api_key)
    /\ base_url' = set_base_url(update, base_url)
    /\ IF save.ok
       THEN /\ store' = [api_key |-> api_key', base_url |-> base_url']
            /\ config_response' = Message("Config updated successfully")
       ELSE /\ store' = store
            /\ config_response' = HTTPException(500, save.error)

\* Lines 132-140.
get_config ==
    /\ config_response' = [status |-> 200,
                           body |-> [model |-> model_name,
                                     api_key |-> api_key,
                                     base_url |-> base_url]]
    /\ UNCHANGED <<api_key, base_url, store, inflight, handled>>

\* A PUT /api-config request is accepted and waits for the event loop.
PutArrive ==
    /\ Cardinality(inflight) < MaxInflight
    /\ \E update \in ConfigUpdates \ inflight : inflight' = inflight \cup {update}
    /\ UNCHANGED <<api_key, base_url, store, handled, config_response>>
    /\ UNCHANGED <<api_config, search_vars, cache_vars, manifest_vars, gate_vars>>

\* Mutant: the handler yields between its two assignments and another
\* waiting handler's base_url assignment lands in between.
UpdateConfig_interleaved ==
    /\ \E update \in inflight :
         /\ \E other \in inflight, save \in SaveOutcomes :
              /\ api_key' = set_api_key(update, api_key)
              /\ base_url' = set_base_url(other, set_base_url(update, base_url))
              /\ IF save.ok
                 THEN /\ store' = [api_key |-> api_key', base_url |-> base_url']
                      /\ config_response' = Message("Config updated successfully")
                 ELSE /\ store' = store
                      /\ config_response' = HTTPException(500, save.error)
         /\ inflight' = inflight \ {update}
         /\ handled' = <<update>>
    /\ UNCHANGED <<api_config, search_vars, cache_vars, manifest_vars, gate_vars>>

\* The event loop runs one waiting handler; the coroutine has no await, so
\* it runs from its first line to its last before any other handler.
UpdateConfig ==
    /\ \E update \in inflight :
         /\ \E save \in SaveOutcomes : update_config(update, save)
         /\ inflight' = inflight \ {update}
         /\ handled' = <<update>>
    /\ UNCHANGED <<api_config, search_vars, cache_vars, manifest_vars, gate_vars>>

GetConfig ==
    /\ get_config
    /\ UNCHANGED <<api_config, search_vars, cache_vars, manifest_vars, gate_vars>>

---------------------------------------------------------------------------
(* The middleware stack.                                                   *)

Protected == "ProtectedModeMiddleware"
RateLimit == "RateLimitMiddleware"

\* Mutant: a class added later wraps inside the ones added before it.
add_middleware_append(stack, cls) == stack \o <<cls>>

\* app.add_middleware(cls): the class is inserted at the front of
\* app.user_middleware, and the front of that list is the outermost layer.
add_middleware(stack, cls) == <<cls>> \o stack

\* Lines 25-30.
register_middleware(cfg) ==
    LET s1 == IF cfg.protected_mode THEN add_middleware(<<>>, Protected) ELSE <<>>
    IN  IF cfg.rate_limit_enabled THEN add_middleware(s1, RateLimit) ELSE s1

Idle == [state |-> "idle", authorized |-> FALSE, depth |-> 0, trace |-> <<>>,
         rejected_by |-> ""]

RequestIds == 1..MaxRequests

\* A request enters the stack at its outermost layer.
RequestArrive ==
    /\ \E r \in RequestIds :
         /\ requests[r].state \in {"idle", "handled", "rejected"}
         /\ \E auth \in BOOLEAN :
              requests' = [requests EXCEPT ![r] =
                  [state |-> "in", authorized |-> auth, depth |-> 0,
                   trace |-> <<>>, rejected_by |-> ""]]
    /\ UNCHANGED <<user_middleware, rl_count>>
    /\ UNCHANGED <<api_config, search_vars, cache_vars, manifest_vars, config_vars>>

\* The next layer of request r, if the request is still on its way in.
NextLayer(r) ==
    IF requests[r].state = "in" /\ requests[r].depth < Len(user_middleware)
    THEN user_middleware[requests[r].depth + 1]
    ELSE ""

Forward(r, layer) ==
    [requests[r] EXCEPT !.depth = @ + 1, !.trace = Append(@, layer)]

Reject(r, layer) ==
    [requests[r] EXCEPT !.state = "rejected", !.trace = Append(@, layer),
                        !.rejected_by = layer]

\* ProtectedModeMiddleware: passes a request that meets its check on,
\* answers the others itself.
ProtectedModeDispatch ==
    /\ \E r \in RequestIds :
         /\ NextLayer(r) = Protected
         /\ requests' = [requests EXCEPT ![r] =
              IF requests[r].authorized THEN Forward(r, Protected)
              ELSE Reject(r, Protected)]
    /\ UNCHANGED <<user_middleware, rl_count>>
    /\ UNCHANGED <<api_config, search_vars, cache_vars, manifest_vars, config_vars>>

\* RateLimitMiddleware: counts the request and passes it on while the quota
\* lasts, answers it itself once the quota is used up.
RateLimitDispatch ==
    /\ \E r \in RequestIds :
         /\ NextLayer(r) = RateLimit
         /\ IF rl_count < RateQuota
            THEN /\ rl_count' = rl_count + 1
                 /\ requests' = [requests EXCEPT ![r] = Forward(r, RateLimit)]
            ELSE /\ rl_count' = rl_count
                 /\ requests' = [requests EXCEPT ![r] = Reject(r, RateLimit)]
    /\ UNCHANGED user_middleware
    /\ UNCHANGED <<api_config, search_vars, cache_vars, manifest_vars, config_vars>>

\* The rate limiter's window ends.
WindowReset ==
    /\ rl_count > 0
    /\ rl_count' = 0
    /\ UNCHANGED <<user_middleware, requests>>
    /\ UNCHANGED <<api_config, search_vars, cache_vars, manifest_vars, config_vars>>

\* A request that every layer passed on reaches its route handler.
RouteHandler ==
    /\ \E r \in RequestIds :
         /\ requests[r].state = "in"
         /\ requests[r].depth = Len(user_middleware)
         /\ requests' = [requests EXCEPT ![r].state = "handled"]
    /\ UNCHANGED <<user_middleware, rl_count>>
    /\ UNCHANGED <<api_config, search_vars, cache_vars, manifest_vars, config_vars>>

---------------------------------------------------------------------------
(* Initial states and specifications.                                      *)

DefaultConfig == [protected_mode |-> FALSE, rate_limit_enabled |-> FALSE,
                  urls |-> DefaultUrls]

ApiConfigs == [protected_mode : BOOLEAN, rate_limit_enabled : BOOLEAN,
               urls : UrlConfigs]

SearchIdle ==
    /\ engine_calls = <<>>
    /\ search_raw = [ok |-> TRUE, results |-> <<>>, error |-> ""]
    /\ search_response = NoResponse

CacheIdle ==
    /\ pending = 0
    /\ running = 0
    /\ tasks_added = 0
    /\ cache_response = NoResponse

ManifestIdle ==
    /\ rebuild_calls = 0
    /\ manifest_reads = 0
    /\ manifest_response = NoResponse

\* Lines 181-182: the engine starts with the configured defaults.
ConfigIdle ==
    /\ api_key = K0
    /\ base_url = U0
    /\ store = [api_key |-> K0, base_url |-> U0]
    /\ inflight = {}
    /\ handled = <<>>
    /\ config_response = NoResponse

GateIdle ==
    /\ user_middleware = register_middleware(api_config)
    /\ requests = [r \in RequestIds |-> Idle]
    /\ rl_count = 0

\* The post-processor and /search under every urls configuration.
InitSearch ==
    /\ api_config \in {c \in ApiConfigs : ~c.protected_mode /\ ~c.rate_limit_enabled}
    /\ SearchIdle /\ CacheIdle /\ has_cache = FALSE
    /\ ManifestIdle /\ manifest_file = Absent
    /\ ConfigIdle /\ GateIdle

NextSearch ==
    \/ SearchImages
    \/ SearchDone

SpecSearch == InitSearch /\ [][NextSearch]_vars

\* /generate-cache, the background builds and /libs_manifest.  Lines
\* 184-185: a cache may have been built before the server started.
Init ==
    /\ api_config = DefaultConfig
    /\ SearchIdle /\ CacheIdle /\ has_cache \in BOOLEAN
    /\ ManifestIdle /\ manifest_file \in ManifestFiles
    /\ ConfigIdle /\ GateIdle

Next ==
    \/ GenerateCache
    \/ TaskStart
    \/ TaskFinish
    \/ GetLibsManifest
    \/ ManifestChange

Spec == Init /\ [][Next]_vars

\* /config and /api-config.
InitConfig ==
    /\ api_config = DefaultConfig
    /\ SearchIdle /\ CacheIdle /\ has_cache = FALSE
    /\ ManifestIdle /\ manifest_file = Absent
    /\ ConfigIdle /\ GateIdle

NextConfig ==
    \/ PutArrive
    \/ UpdateConfig
    \/ GetConfig

SpecConfig == InitConfig /\ [][NextConfig]_vars

\* The middleware stack under every combination of the two flags.
InitGate ==
    /\ api_config \in {c \in ApiConfigs : c.urls = DefaultUrls}
    /\ SearchIdle /\ CacheIdle /\ has_cache = FALSE
    /\ ManifestIdle /\ manifest_file = Absent
    /\ ConfigIdle /\ GateIdle

NextGate ==
    \/ RequestArrive
    \/ ProtectedModeDispatch
    \/ RateLimitDispatch
    \/ WindowReset
    \/ RouteHandler

SpecGate == InitGate /\ [][NextGate]_vars

---------------------------------------------------------------------------
(* Properties of /generate-cache (under Spec).                             *)

\* A step in which a /generate-cache call shows: a task was scheduled or
\* the call's response or task list changed.
CacheCallShows ==
    \/ pending' > pending
    \/ tasks_added' # tasks_added
    \/ cache_response' # cache_response

\* C1: a /generate-cache call made while has_cache() is true adds no
\* background task and answers "Cache already exists"; a call made while
\* has_cache() is false adds exactly one task and answers "Cache generation
\* started".
C1_GuardedByHasCache ==
    [][CacheCallShows =>
         IF has_cache
         THEN /\ pending' = pending
              /\ tasks_added' = 0
              /\ cache_response' = Message("Cache already exists")
         ELSE /\ pending' = pending + 1
              /\ tasks_added' = 1
              /\ cache_response' = Message("Cache generation started")]_vars

\* A call found the cache present while builds scheduled earlier were still
\* waiting or running, and added nothing.
C1_Witness ==
    /\ has_cache
    /\ cache_response = Message("Cache already exists")
    /\ tasks_added = 0
    /\ pending + running > 0

\* C2: while no cache exists a /generate-cache call schedules its own task
\* however many builds are already pending or running: has_cache() is the
\* only guard, there is no in-flight flag.
C2_NoInflightFlag ==
    (~has_cache /\ pending + running < MaxTasks) =>
        ENABLED (/\ generate_cache
                 /\ pending' = pending + 1
                 /\ tasks_added' = 1
                 /\ cache_response' = Message("Cache generation started"))

\* Two calls arrived before any build finished: two builds are pending or
\* running at once and still no cache exists.
C2_Witness ==
    /\ ~has_cache
    /\ pending + running >= 2
    /\ running >= 1
    /\ cache_response = Message("Cache generation started")

---------------------------------------------------------------------------
(* Properties of /libs_manifest (under Spec).                              *)

\* C8: the rebuild runs exactly when the manifest is absent at the start of
\* the request, the file is then read once, and the outcome is the parsed
\* manifest, 404 when the file is still absent after the rebuild attempt, or
\* 500 "Invalid JSON format" when it exists and does not parse.
C8_RebuildThenReadOnce ==
    [][GetLibsManifest =>
         /\ rebuild_calls' = (IF manifest_file.exists THEN 0 ELSE 1)
         /\ manifest_reads' = 1
         /\ manifest_response' =
              (IF ~manifest_file'.exists
               THEN HTTPException(404, "Manifest file not found")
               ELSE IF ~manifest_file'.json_ok
               THEN HTTPException(500, "Invalid JSON format in manifest file")
               ELSE [status |-> 200, body |-> [manifest |-> manifest_file'.data]])]_vars

---------------------------------------------------------------------------
(* Properties of /config and /api-config (under SpecConfig).               *)

\* The update whose handler runs in this step.
Handles(u) == u \in inflight /\ u \notin inflight'

\* C3: an update with only api_key set leaves base_url as it was, and an
\* update with only base_url set leaves api_key as it was, whether or not
\* config.save() succeeds.
C3_OtherFieldUnchanged ==
    [][\A u \in inflight :
         Handles(u) =>
           /\ (u.api_key.some /\ ~u.base_url.some) => base_url' = base_url
           /\ (u.base_url.some /\ ~u.api_key.some) => api_key' = api_key]_vars

\* An update with only api_key set has been applied, its save failed, and
\* base_url is still the startup value.
C3_Witness ==
    /\ handled = <<[api_key |-> Some(K1), base_url |-> None]>>
    /\ api_key = K1
    /\ base_url = U0
    /\ config_response.status = 500

\* C4: when config.save() fails the request ends with a 500 carrying the
\* failure's description, the engine keeps the values the update wrote and
\* nothing is persisted; GET /config returns the engine's current values.
C4_NoRollback ==
    [][/\ \A u \in inflight : \A e \in SaveErrors :
            (Handles(u) /\ update_config(u, [ok |-> FALSE, error |-> e])) =>
              /\ config_response' = [status |-> 500, body |-> [detail |-> e]]
              /\ Truthy(u.api_key) => api_key' = u.api_key.val
              /\ Truthy(u.base_url) => base_url' = u.base_url.val
              /\ ~Truthy(u.api_key) => api_key' = api_key
              /\ ~Truthy(u.base_url) => base_url' = base_url
              /\ store' = store
       /\ (config_response'.status = 200 /\ "api_key" \in DOMAIN config_response'.body) =>
              /\ config_response'.body.api_key = api_key'
              /\ config_response'.body.base_url = base_url']_vars

\* A GET /config has returned values that were never persisted.
C4_Witness ==
    /\ config_response.status = 200
    /\ "api_key" \in DOMAIN config_response.body
    /\ config_response.body.api_key = K1
    /\ config_response.body.base_url = U1
    /\ store = [api_key |-> K0, base_url |-> U0]

\* C10: handlers of PUT /api-config do not interleave: every change of
\* (api_key, base_url) is the whole effect of one waiting request, made in
\* the step that takes the request off the waiting set, so between two
\* handlers both fields show the last handled update.
C10_HandlersAtomic ==
    /\ [][(api_key' # api_key \/ base_url' # base_url) =>
            \E u \in inflight :
              /\ inflight' = inflight \ {u}
              /\ api_key' = (IF Truthy(u.api_key) THEN u.api_key.val ELSE api_key)
              /\ base_url' = (IF Truthy(u.base_url) THEN u.base_url.val ELSE base_url)]_vars
    /\ [](handled # <<>> =>
            /\ Truthy(handled[1].api_key) => api_key = handled[1].api_key.val
            /\ Truthy(handled[1].base_url) => base_url = handled[1].base_url.val)

\* Two requests that set both fields were waiting together; one has run and
\* both fields are its values while the other still waits.
C10_Witness ==
    /\ handled = <<[api_key |-> Some(K1), base_url |-> Some(U1)]>>
    /\ inflight = {[api_key |-> Some(K2), base_url |-> Some(U2)]}
    /\ api_key = K1
    /\ base_url = U1

---------------------------------------------------------------------------
(* Properties of the post-processor and /search (under SpecSearch).        *)

urls == api_config.urls

Succeeded == search_response.status = 200

Results == search_response.body.results

\* Indices at which pattern p matches v.
MatchPositions(p, v) == {i \in 1..Len(v) : MatchAt(p, v, i)}

\* The matches one left-to-right scan removes: a match is removed exactly
\* when no removed match to its left overlaps it.
ScanCuts(p, v) ==
    CHOOSE C \in SUBSET MatchPositions(p, v) :
        \A m \in MatchPositions(p, v) :
            m \in C <=> ~\E c \in C : c < m /\ m < c + Len(p)

\* v without the characters of the matches that start at the indices in C.
WithoutCuts(p, v, C) ==
    LET keep == {i \in 1..Len(v) : ~\E c \in C : c <= i /\ i < c + Len(p)}
    IN  [k \in 1..Cardinality(keep) |->
            v[CHOOSE i \in keep : Cardinality({j \in keep : j <= i}) = k]]

\* C6: when url_postfix is configured every identifier returned ends with
\* url_postfix.
C6_EndsWithPostfix ==
    (Succeeded /\ Truthy(urls.url_postfix)) =>
        \A i \in 1..Len(Results) : endswith(Results[i], urls.url_postfix.val)

\* C7 as stated: when a strip pattern is configured no identifier returned
\* contains a match of it.  Checked where no postfix is configured, so that
\* the postfix branch of C6 plays no part in a violation.
C7_NoMatchInOutput ==
    (Succeeded /\ Truthy(urls.path_replace_regex) /\ ~Truthy(urls.url_postfix)) =>
        \A i \in 1..Len(Results) :
            MatchPositions(urls.path_replace_regex.val, Results[i]) = {}

\* C7 as amended: when a strip pattern is configured, the identifier that
\* goes on to the prefix and postfix steps is the selected identifier
\* without the matches one left-to-right scan finds in it; what the removal
\* joins and what prefix and postfix add is not scanned again.
C7_OneScanBeforePrefix ==
    (Succeeded /\ Truthy(urls.path_replace_regex)) =>
        \A i \in 1..Len(Results) :
            LET p == urls.path_replace_regex.val
                v == select_identifier(search_raw.results[i], urls)
                stripped == WithoutCuts(p, v, ScanCuts(p, v))
            IN  /\ Len(Results) = Len(search_raw.results)
                /\ Results[i] = add_postfix(add_prefix(stripped, urls), urls)

\* Two matches were removed from one identifier and the prefix step put a
\* new match in front of it.
C7_Witness ==
    /\ Succeeded
    /\ urls.path_replace_regex = Some(<<"/">>)
    /\ urls.url_prefix = Some(<<"p">>)
    /\ urls.return_type = "abs_path"
    /\ Len(Results) = 1
    /\ Cardinality(MatchPositions(<<"/">>, search_raw.results[1])) = 2
    /\ MatchPositions(<<"/">>, Results[1]) # {}

\* C9: the engine is called once per request; when it raises, the response
\* is a 500 whose only content is the failure's description; when it
\* returns, the results are the post-processed raw results, one for one and
\* in the engine's order.
C9_OneCallNoPartialResults ==
    search_response # NoResponse =>
        /\ Len(engine_calls) = 1
        /\ IF search_raw.ok
           THEN /\ Succeeded
                /\ DOMAIN search_response.body = {"results"}
                /\ Len(Results) = Len(search_raw.results)
                /\ \A i \in 1..Len(Results) :
                       Results[i] = postprocess_one(search_raw.results[i], urls)
           ELSE /\ search_response.status = 500
                /\ DOMAIN search_response.body = {"detail"}
                /\ search_response.body.detail = search_raw.error
                /\ search_raw.error \in EngineErrors

\* The engine raised and the request ended with a 500 after one call.
C9_Witness ==
    /\ search_response.status = 500
    /\ ~search_raw.ok
    /\ Len(engine_calls) = 1

---------------------------------------------------------------------------
(* Properties of the middleware stack (under SpecGate).                    *)

Range(t) == {t[i] : i \in 1..Len(t)}

IsPrefix(t, full) == Len(t) <= Len(full) /\ t = SubSeq(full, 1, Len(t))

BothEnabled == api_config.protected_mode /\ api_config.rate_limit_enabled

\* A layer is in the stack exactly when its flag is set, and no request
\* reaches the route handler after a layer rejected it or before every
\* layer in the stack passed it on.
GateCommon(r) ==
    /\ ~api_config.protected_mode => Protected \notin Range(requests[r].trace)
    /\ ~api_config.rate_limit_enabled => RateLimit \notin Range(requests[r].trace)
    /\ requests[r].state = "handled" =>
         /\ requests[r].rejected_by = ""
         /\ api_config.protected_mode => Protected \in Range(requests[r].trace)
         /\ api_config.rate_limit_enabled => RateLimit \in Range(requests[r].trace)
    /\ requests[r].state = "rejected" =>
         requests[r].rejected_by \in Range(requests[r].trace)

\* C5 as stated: with both flags set a request meets the protected-mode
\* check first and the rate limiter second, and a request the protected-mode
\* check rejects is never seen by the rate limiter.
C5_ProtectedFirst ==
    \A r \in RequestIds :
        /\ GateCommon(r)
        /\ BothEnabled =>
             /\ IsPrefix(requests[r].trace, <<Protected, RateLimit>>)
             /\ requests[r].rejected_by = Protected =>
                    RateLimit \notin Range(requests[r].trace)

\* C5 as amended: with both flags set a request meets the rate limiter
\* first and the protected-mode check second; a request the rate limiter
\* rejects never reaches the protected-mode check, and a request the
\* protected-mode check rejects has already been counted by the rate
\* limiter.
C5_RateLimiterFirst ==
    \A r \in RequestIds :
        /\ GateCommon(r)
        /\ BothEnabled =>
             /\ IsPrefix(requests[r].trace, <<RateLimit, Protected>>)
             /\ requests[r].rejected_by = RateLimit =>
                    Protected \notin Range(requests[r].trace)
             /\ requests[r].rejected_by = Protected =>
                    RateLimit \in Range(requests[r].trace)

\* With both layers on, the protected-mode check rejected a request that
\* the rate limiter had already passed on.
C5_Witness ==
    /\ BothEnabled
    /\ \E r \in RequestIds :
         /\ requests[r].state = "rejected"
         /\ requests[r].rejected_by = Protected
         /\ requests[r].trace = <<RateLimit, Protected>>
         /\ rl_count > 0

=============================================================================
